---- MODULE Spec2Model ----
(***************************************************************************)
(* Model of alphafold/data/tools/utils.py: the context managers            *)
(* tmpdir_manager and timing, and the generator minibatches.  One caller   *)
(* makes one call of one of the three utilities; the positions of the      *)
(* generator bodies (before the first statement, at the yield, after the   *)
(* last statement) are the values of pc.                                   *)
(***************************************************************************)
EXTENDS Integers, Sequences, FiniteSets, TLC

VARIABLES pc, err, thrown, log,
          inputs_data, batch_size, next_idx, start_idx, pending, batches,
          msg, tic,
          fs, tmpdir, denied

vars == <<pc, err, thrown, log,
          inputs_data, batch_size, next_idx, start_idx, pending, batches,
          msg, tic, fs, tmpdir, denied>>

mbVars == <<inputs_data, batch_size, next_idx, start_idx, pending, batches>>
tmVars == <<msg, tic>>
tdVars == <<fs, tmpdir, denied>>

----------------------------------------------------------------------------
(* Bounds of the model *)

MaxLen == 4        \* longest inputs_data
MaxElem == 2       \* elements of inputs_data are 1..MaxElem
MaxBatch == 3      \* largest batch_size
MaxNeg == 2        \* batch_size ranges down to -MaxNeg
MaxClock == 2      \* readings of time.time(), in milliseconds
MaxBodyLogs == 2   \* log lines the block enclosed by timing may emit
MaxNames == 2      \* names mkdtemp can pick under one parent directory
MaxFiles == 1      \* files the enclosed scope may create in the directory

Elems == 1..MaxElem
Inputs == UNION {[1..n -> Elems] : n \in 0..MaxLen}
BatchSizes == (0 - MaxNeg)..MaxBatch
Labels == {"jackhmmer", "hhblits"}
BodyErrors == {"RuntimeError", "KeyError"}
Names == 1..MaxNames
Files == 1..MaxFiles
BaseDirs == {"None", "base", "missing"}

Min(a, b) == IF a < b THEN a ELSE b
Max(a, b) == IF a > b THEN a ELSE b

----------------------------------------------------------------------------
(* Python sequence slicing and range *)

\* Python's clamping of a slice index i for a sequence of length n
SliceIndex(i, n) == IF i < 0 THEN Max(i + n, 0) ELSE Min(i, n)

\* s[start:stop], 0-based half-open
SliceRange(s, start, stop) ==
  LET lo == SliceIndex(start, Len(s))
      hi == SliceIndex(stop, Len(s))
  IN [k \in 1..Max(hi - lo, 0) |-> s[lo + k]]

\* s[start:]
SliceFrom(s, start) ==
  LET lo == SliceIndex(start, Len(s))
  IN [k \in 1..(Len(s) - lo) |-> s[lo + k]]

\* range(0, stop, step) with step = 0 raises ValueError
RangeRaises(step) == step = 0

\* whether the range iterator whose next value is cur has a next value
RangeHasNextIncl(cur, stop, step) ==
  IF step > 0 THEN cur <= stop ELSE cur >= stop
RangeHasNext(cur, stop, step) ==
  IF step > 0 THEN cur < stop ELSE cur > stop

----------------------------------------------------------------------------
(* Log lines *)

Started(m) == [kind |-> "Started", label |-> m, n |-> 0]
Finished(m, elapsed) == [kind |-> "Finished", label |-> m, n |-> elapsed]
BodyLine == [kind |-> "Body", label |-> "", n |-> 0]
SendData(n) == [kind |-> "Send data in length", label |-> "", n |-> n]
SendFinal(n) == [kind |-> "Send final data in length", label |-> "", n |-> n]


Count(l, kind) == Cardinality({i \in DOMAIN l : l[i].kind = kind})

----------------------------------------------------------------------------
(* The filesystem: a set of paths, each a tuple <<root, name, file>> prefix *)

Roots == {<<"tmp">>, <<"base">>}
Preexisting == {<<"tmp", 1>>, <<"base", 1>>}

IsPrefix(p, q) == Len(p) <= Len(q) /\ SubSeq(q, 1, Len(p)) = p

\* tempfile.gettempdir() when base_dir is None, else base_dir
ParentDir(base_dir) == IF base_dir = "None" THEN <<"tmp">> ELSE <<base_dir>>

\* the names tempfile.mkdtemp(dir=base_dir) may create in filesystem f
MkdtempChoices(f, base_dir) ==
  IF ParentDir(base_dir) \in f
  THEN {p \in {Append(ParentDir(base_dir), n) : n \in Names} : p \notin f}
  ELSE {}

----------------------------------------------------------------------------
(* Initial state: nothing called yet *)

Init ==
  /\ pc = "idle"
  /\ err = "none"
  /\ thrown = "none"
  /\ log = <<>>
  /\ inputs_data = <<>>
  /\ batch_size = 1
  /\ next_idx = 0
  /\ start_idx = 0
  /\ pending = <<>>
  /\ batches = <<>>
  /\ msg = ""
  /\ tic = 0
  /\ fs \in {Roots \cup S : S \in SUBSET Preexisting}
  /\ tmpdir = <<>>
  /\ denied = FALSE

----------------------------------------------------------------------------
(* minibatches(inputs_data, batch_size) *)

\* stop of slice(start_idx, start_idx + batch_size)
ExcerptStopLong(start, size) == start + size + 1
ExcerptStop(start, size) == start + size

\* len(inputs_data[start_idx:]) > batch_size
IsNotFinalGeq(data, start, size) == Len(SliceFrom(data, start)) >= size
IsNotFinal(data, start, size) == Len(SliceFrom(data, start)) > size

\* len(inputs_data[excerpt]) reported by "Send data in length"
DataLogLength(data, start, size) ==
  Len(SliceRange(data, start, ExcerptStop(start, size)))

\* len(inputs_data[start_idx:]) reported by "Send final data in length"
FinalLogLengthFull(data, start, size) == size
FinalLogLength(data, start, size) == Len(SliceFrom(data, start))

\* stop of range(0, len(inputs_data), batch_size)
RangeStopShort(data) == Len(data) - 1
RangeStop(data) == Len(data)

\* the call creates the generator object; no statement of the body runs
CallMinibatches ==
  /\ pc = "idle"
  /\ \E d \in Inputs, b \in BatchSizes :
       /\ inputs_data' = d
       /\ batch_size' = b
  /\ pc' = "mb_created"
  /\ UNCHANGED <<err, thrown, log, next_idx, start_idx, pending, batches>>
  /\ UNCHANGED <<tmVars, tdVars>>

\* first next(): the body starts and evaluates range(0, len, batch_size)
MbStart ==
  /\ pc = "mb_created"
  /\ IF RangeRaises(batch_size)
     THEN /\ pc' = "mb_raised"
          /\ err' = "ValueError"
          /\ UNCHANGED next_idx
     ELSE /\ pc' = "mb_for"
          /\ next_idx' = 0
          /\ UNCHANGED err
  /\ UNCHANGED <<thrown, log, inputs_data, batch_size, start_idx, pending,
                 batches>>
  /\ UNCHANGED <<tmVars, tdVars>>

\* top of the for loop: the range iterator gives start_idx or is exhausted
MbFor ==
  /\ pc = "mb_for"
  /\ IF RangeHasNext(next_idx, RangeStop(inputs_data), batch_size)
     THEN /\ start_idx' = next_idx
          /\ next_idx' = next_idx + batch_size
          /\ pc' = "mb_if"
     ELSE /\ pc' = "mb_returned"
          /\ UNCHANGED <<start_idx, next_idx>>
  /\ UNCHANGED <<err, thrown, log, inputs_data, batch_size, pending, batches>>
  /\ UNCHANGED <<tmVars, tdVars>>

\* the if statement: log the length, evaluate the value to yield
MbSend ==
  /\ pc = "mb_if"
  /\ IF IsNotFinal(inputs_data, start_idx, batch_size)
     THEN /\ log' = Append(log,
                      SendData(DataLogLength(inputs_data, start_idx,
                                             batch_size)))
          /\ pending' = SliceRange(inputs_data, start_idx,
                                   ExcerptStop(start_idx, batch_size))
     ELSE /\ log' = Append(log,
                      SendFinal(FinalLogLength(inputs_data, start_idx,
                                               batch_size)))
          /\ pending' = SliceFrom(inputs_data, start_idx)
  /\ pc' = "mb_yield"
  /\ UNCHANGED <<err, thrown, inputs_data, batch_size, next_idx, start_idx,
                 batches>>
  /\ UNCHANGED <<tmVars, tdVars>>

\* yield: the batch is handed to the consumer, the generator is suspended
MbYield ==
  /\ pc = "mb_yield"
  /\ batches' = Append(batches, pending)
  /\ pc' = "mb_suspended"
  /\ UNCHANGED <<err, thrown, log, inputs_data, batch_size, next_idx,
                 start_idx, pending>>
  /\ UNCHANGED <<tmVars, tdVars>>

\* the consumer requests the next batch: the body resumes after the yield
MbNext ==
  /\ pc = "mb_suspended"
  /\ pc' = "mb_for"
  /\ UNCHANGED <<err, thrown, log, mbVars, tmVars, tdVars>>

\* the consumer abandons the iteration (the generator is closed or dropped)
MbClose ==
  /\ pc \in {"mb_created", "mb_suspended"}
  /\ pc' = "mb_closed"
  /\ UNCHANGED <<err, thrown, log, mbVars, tmVars, tdVars>>

----------------------------------------------------------------------------
(* timing(msg) *)

\* logging.info('Started %s', msg)
TimingEnterLogTwice(l, m) == Append(Append(l, Started(m)), Started(m))
TimingEnterLog(l, m) == Append(l, Started(m))

\* after the yield returns: logging.info('Finished %s in %.3f seconds', ...)
TimingResumeLog(l, m, elapsed) == Append(l, Finished(m, elapsed))

\* an error thrown in at the yield: no try statement encloses the yield,
\* so no statement after it runs
TimingThrowLogFinally(l, m, elapsed) == Append(l, Finished(m, elapsed))
TimingThrowLog(l, m, elapsed) == l

\* the error that leaves the generator when e is thrown in at the yield
TimingThrowErr(e) == e

\* __enter__: the body runs up to the yield
TimingEnter ==
  /\ pc = "idle"
  /\ \E m \in Labels, t \in 0..MaxClock :
       /\ msg' = m
       /\ log' = TimingEnterLog(log, m)
       /\ tic' = t
  /\ pc' = "tm_body"
  /\ UNCHANGED <<err, thrown, mbVars, tdVars>>

\* the enclosed block logs a line of its own
TmBodyLog ==
  /\ pc = "tm_body"
  /\ Count(log, "Body") < MaxBodyLogs
  /\ log' = Append(log, BodyLine)
  /\ UNCHANGED <<pc, err, thrown, mbVars, tmVars, tdVars>>

\* the enclosed block completes normally
TmBodyReturn ==
  /\ pc = "tm_body"
  /\ pc' = "tm_resume"
  /\ UNCHANGED <<err, thrown, log, mbVars, tmVars, tdVars>>

\* the enclosed block raises e
TmBodyRaise ==
  /\ pc = "tm_body"
  /\ \E e \in BodyErrors : thrown' = e
  /\ pc' = "tm_throw"
  /\ UNCHANGED <<err, log, mbVars, tmVars, tdVars>>

\* __exit__ without an error: the body resumes after the yield and returns
TimingResume ==
  /\ pc = "tm_resume"
  /\ \E toc \in 0..MaxClock : log' = TimingResumeLog(log, msg, toc - tic)
  /\ pc' = "tm_exited"
  /\ UNCHANGED <<err, thrown, mbVars, tmVars, tdVars>>

\* __exit__ with an error: it is thrown into the body at the yield
TimingThrow ==
  /\ pc = "tm_throw"
  /\ \E toc \in 0..MaxClock : log' = TimingThrowLog(log, msg, toc - tic)
  /\ err' = TimingThrowErr(thrown)
  /\ pc' = "tm_raised"
  /\ UNCHANGED <<thrown, mbVars, tmVars, tdVars>>

----------------------------------------------------------------------------
(* tmpdir_manager(base_dir) *)

\* the ignore_errors argument of shutil.rmtree
ignore_errors_off == FALSE
ignore_errors == TRUE

\* shutil.rmtree(path) cannot complete: path is gone or the removal is refused
RmtreeFails(f, path, deny) == path \notin f \/ deny

\* the filesystem after shutil.rmtree(path, ignore_errors=...)
RmtreeKeep(f, path, deny) == f
Rmtree(f, path, deny) ==
  IF RmtreeFails(f, path, deny)
  THEN f
  ELSE {p \in f : ~IsPrefix(path, p)}

\* the error shutil.rmtree raises, "none" when it raises nothing
RmtreeError(f, path, deny) ==
  IF RmtreeFails(f, path, deny) /\ ~ignore_errors THEN "OSError" ELSE "none"

\* the error that leaves the finally clause entered with pending error e
FinallyError(e, cleanup) == IF cleanup # "none" THEN cleanup ELSE e

\* __enter__: tempfile.mkdtemp(dir=base_dir), then the yield
TmpdirEnter ==
  /\ pc = "idle"
  /\ \E b \in BaseDirs :
       \/ /\ MkdtempChoices(fs, b) # {}
          /\ \E p \in MkdtempChoices(fs, b) :
               /\ tmpdir' = p
               /\ fs' = fs \cup {p}
          /\ pc' = "td_body"
          /\ UNCHANGED err
       \/ \* mkdtemp fails (missing parent, no free name, disk full)
          /\ pc' = "td_create_failed"
          /\ err' = "OSError"
          /\ UNCHANGED <<fs, tmpdir>>
  /\ UNCHANGED <<thrown, log, denied, mbVars, tmVars>>

\* the enclosed scope creates a file in the directory
TdBodyWrite ==
  /\ pc = "td_body"
  /\ tmpdir \in fs
  /\ \E n \in Files :
       /\ Append(tmpdir, n) \notin fs
       /\ fs' = fs \cup {Append(tmpdir, n)}
  /\ UNCHANGED <<pc, err, thrown, log, tmpdir, denied, mbVars, tmVars>>

\* the enclosed scope removes the directory itself
TdBodyRemove ==
  /\ pc = "td_body"
  /\ tmpdir \in fs
  /\ ~denied
  /\ fs' = {p \in fs : ~IsPrefix(tmpdir, p)}
  /\ UNCHANGED <<pc, err, thrown, log, tmpdir, denied, mbVars, tmVars>>

\* the permissions change so that removals in the directory are refused
TdBodyDeny ==
  /\ pc = "td_body"
  /\ ~denied
  /\ denied' = TRUE
  /\ UNCHANGED <<pc, err, thrown, log, fs, tmpdir, mbVars, tmVars>>

\* the enclosed scope completes normally
TdBodyReturn ==
  /\ pc = "td_body"
  /\ pc' = "td_finally"
  /\ UNCHANGED <<err, thrown, log, mbVars, tmVars, tdVars>>

\* the enclosed scope raises e
TdBodyRaise ==
  /\ pc = "td_body"
  /\ \E e \in BodyErrors : thrown' = e
  /\ pc' = "td_finally"
  /\ UNCHANGED <<err, log, mbVars, tmVars, tdVars>>

\* __exit__: the finally clause runs rmtree, then the pending error goes on
TmpdirFinally ==
  /\ pc = "td_finally"
  /\ fs' = Rmtree(fs, tmpdir, denied)
  /\ err' = FinallyError(thrown, RmtreeError(fs, tmpdir, denied))
  /\ pc' = IF err' = "none" THEN "td_exited" ELSE "td_raised"
  /\ UNCHANGED <<thrown, log, tmpdir, denied, mbVars, tmVars>>

----------------------------------------------------------------------------

Next ==
  \/ CallMinibatches
  \/ MbStart
  \/ MbFor
  \/ MbSend
  \/ MbYield
  \/ MbNext
  \/ MbClose
  \/ TimingEnter
  \/ TmBodyLog
  \/ TmBodyReturn
  \/ TmBodyRaise
  \/ TimingResume
  \/ TimingThrow
  \/ TmpdirEnter
  \/ TdBodyWrite
  \/ TdBodyRemove
  \/ TdBodyDeny
  \/ TdBodyReturn
  \/ TdBodyRaise
  \/ TmpdirFinally

Spec == Init /\ [][Next]_vars

\* a started generator body runs on to its next yield or to its end, and a
\* consumer that iterates fully requests the next batch after each one
MbStep == MbStart \/ MbFor \/ MbSend \/ MbYield \/ MbNext

LiveSpec == Init /\ [][Next]_vars /\ WF_vars(MbStep)

----------------------------------------------------------------------------
(* Properties *)

MbPcs == {"mb_created", "mb_raised", "mb_for", "mb_if", "mb_yield",
          "mb_suspended", "mb_returned", "mb_closed"}
TdExitPcs == {"td_exited", "td_raised"}

\* a call of minibatches with a positive batch_size is in progress or over
PositiveCall == pc \in MbPcs /\ batch_size > 0

RECURSIVE Flatten(_)
Flatten(ss) == IF ss = <<>> THEN <<>> ELSE Head(ss) \o Flatten(Tail(ss))

CeilDiv(n, d) == (n + d - 1) \div d

\* C1: for positive batch_size the batches handed over so far, concatenated
\* in order, are always a prefix of inputs_data, and once the generator has
\* returned they are exactly inputs_data.
C1_ConcatReproducesInput ==
  PositiveCall =>
    /\ IsPrefix(Flatten(batches), inputs_data)
    /\ (pc = "mb_returned" => Flatten(batches) = inputs_data)

C1_Witness ==
  /\ pc = "mb_returned"
  /\ batch_size > 1
  /\ Len(batches) >= 2
  /\ Len(inputs_data) % batch_size # 0
  /\ inputs_data[1] # inputs_data[2]

BatchCountBounded ==
  PositiveCall =>
    /\ Len(batches) <= CeilDiv(Len(inputs_data), batch_size)
    /\ (pc = "mb_returned" =>
          Len(batches) = CeilDiv(Len(inputs_data), batch_size))
    /\ (pc = "mb_returned" /\ inputs_data = <<>> => batches = <<>>)

\* C2: for positive batch_size the number of batches never exceeds
\* ceil(len(inputs_data) / batch_size), when the generator has returned it
\* is exactly that number (zero for an empty input), and an iteration that
\* is not abandoned reaches that return.
C2_BatchCount ==
  /\ []BatchCountBounded
  /\ (PositiveCall ~> pc \in {"mb_returned", "mb_closed"})

C2_Witness ==
  /\ pc = "mb_returned"
  /\ batch_size > 1
  /\ Len(batches) = 2
  /\ Len(inputs_data) = batch_size + 1

\* C3: for a non-empty input and positive batch_size no batch is empty;
\* after a full iteration every batch but the last has length batch_size and
\* the last has length len mod batch_size, or batch_size when that is zero.
C3_BatchLengths ==
  (PositiveCall /\ inputs_data # <<>>) =>
    /\ \A i \in DOMAIN batches : Len(batches[i]) > 0
    /\ (pc = "mb_yield" => Len(pending) > 0)
    /\ \A i \in DOMAIN batches :
         i < Len(batches) => Len(batches[i]) = batch_size
    /\ (pc = "mb_returned" =>
          /\ batches # <<>>
          /\ Len(batches[Len(batches)]) =
               IF Len(inputs_data) % batch_size # 0
               THEN Len(inputs_data) % batch_size
               ELSE batch_size)

C3_Witness ==
  /\ pc = "mb_returned"
  /\ batch_size > 1
  /\ Len(inputs_data) = 2 * batch_size
  /\ Len(batches) = 2
  /\ Len(batches[2]) = batch_size

\* C4 as stated: after the tmpdir_manager scope has exited, normally or with
\* an error, the yielded directory does not exist.
C4_DirectoryGoneAfterExit ==
  pc \in TdExitPcs => tmpdir \notin fs

\* C4 amended: after the tmpdir_manager scope has exited, normally or with an
\* error, the yielded directory and everything in it do not exist, unless
\* the removal was refused.
C4_DirectoryGoneUnlessRefused ==
  (pc \in TdExitPcs /\ ~denied) =>
    \A p \in fs : ~IsPrefix(tmpdir, p)

C4_Witness ==
  /\ pc = "td_raised"
  /\ ~denied
  /\ tmpdir # <<>>
  /\ tmpdir \notin fs
  /\ thrown \in BodyErrors

\* C5: the cleanup of tmpdir_manager raises nothing: the scope exits with
\* exactly the error the enclosed scope raised, and without an error when
\* the enclosed scope completed normally, also when the removal failed.
C5_CleanupNeverRaises ==
  pc \in TdExitPcs =>
    /\ err = thrown
    /\ (pc = "td_exited" <=> thrown = "none")
    /\ (pc = "td_raised" <=> thrown \in BodyErrors)

C5_Witness ==
  /\ pc = "td_raised"
  /\ denied
  /\ tmpdir \in fs
  /\ err = "KeyError"

\* C6: when the block enclosed by timing completes normally the log holds
\* exactly one Started line, emitted before the block began, exactly one
\* Finished line, emitted after the block ended, both with the label, and
\* nothing else but the block's own lines.
C6_StartedThenFinished ==
  /\ pc \in {"tm_body", "tm_resume"} =>
       /\ log # <<>>
       /\ log[1] = Started(msg)
       /\ Count(log, "Started") = 1
       /\ Count(log, "Finished") = 0
  /\ pc = "tm_exited" =>
       /\ Len(log) >= 2
       /\ log[1] = Started(msg)
       /\ log[Len(log)].kind = "Finished"
       /\ log[Len(log)].label = msg
       /\ Count(log, "Started") = 1
       /\ Count(log, "Finished") = 1
       /\ \A i \in 2..(Len(log) - 1) : log[i] = BodyLine

C6_Witness ==
  /\ pc = "tm_exited"
  /\ Count(log, "Body") >= 1
  /\ log[Len(log)].kind = "Finished"

\* C7: when the block enclosed by timing raises, the log holds exactly one
\* Started line and no Finished line, and the error that reaches the caller
\* is the error the block raised.
C7_NoFinishedOnError ==
  pc = "tm_raised" =>
    /\ log[1] = Started(msg)
    /\ Count(log, "Started") = 1
    /\ Count(log, "Finished") = 0
    /\ thrown \in BodyErrors
    /\ err = thrown

C7_Witness ==
  /\ pc = "tm_raised"
  /\ err = "RuntimeError"
  /\ Count(log, "Body") >= 1

\* C8: for a non-empty input and positive batch_size a "Send final data"
\* line is only ever the last line of the log, and after a full iteration
\* the last line is "Send final data" with the last batch's length and every
\* earlier line is "Send data" with its batch's length.
C8_FinalLoggedOnceAndLast ==
  (PositiveCall /\ inputs_data # <<>>) =>
    /\ \A i \in DOMAIN log :
         i < Len(log) => log[i].kind = "Send data in length"
    /\ (pc = "mb_returned" =>
          /\ Len(log) = Len(batches)
          /\ log # <<>>
          /\ log[Len(log)] = SendFinal(Len(batches[Len(batches)]))
          /\ \A i \in 1..(Len(log) - 1) :
               log[i] = SendData(Len(batches[i])))

C8_Witness ==
  /\ pc = "mb_returned"
  /\ batch_size > 1
  /\ Len(inputs_data) % batch_size = 0
  /\ Len(log) >= 2
  /\ log[Len(log)] = SendFinal(batch_size)
  /\ log[1] = SendData(batch_size)

\* C9 as stated: for batch_size <= 0 an iteration of minibatches that has
\* ended has ended in an error.
C9_NonPositiveBatchSizeRaises ==
  (pc \in {"mb_returned", "mb_raised"} /\ batch_size <= 0) => err # "none"

\* C10: for positive batch_size nothing is logged before the first batch is
\* requested; the i-th log line reports the length of the i-th batch and is
\* there before that batch is handed over; whenever the consumer holds k
\* batches and the generator is not running, the log has exactly k lines.
C10_LazyOneLogPerBatch ==
  PositiveCall =>
    /\ (pc = "mb_created" => log = <<>> /\ batches = <<>>)
    /\ Len(batches) <= Len(log)
    /\ \A i \in DOMAIN batches : log[i].n = Len(batches[i])
    /\ (pc = "mb_yield" =>
          /\ Len(log) = Len(batches) + 1
          /\ log[Len(log)].n = Len(pending))
    /\ (pc # "mb_yield" => Len(log) = Len(batches))

C10_Witness ==
  /\ pc = "mb_closed"
  /\ batch_size > 0
  /\ Len(batches) = 1
  /\ Len(log) = 1
  /\ Len(inputs_data) > batch_size

====
